---- MODULE Spec2Model ----
(***************************************************************************)
(* x402 facilitator service (src/index.ts): an Express application that    *)
(* verifies and settles payments on EVM and SVM networks.                  *)
(*                                                                         *)
(* The state is the process configuration read from the environment at     *)
(* start-up, the wall clock, and, per request, the position of its handler *)
(* (handlers are async functions: they run synchronously up to the next    *)
(* await, so one action models one such run), its locals, the external     *)
(* calls it has made and the responses it has sent.                        *)
(***************************************************************************)
EXTENDS Integers, Sequences, FiniteSets, TLC

VARIABLES
    EVM_PRIVATE_KEY,               \* src/index.ts:48
    SVM_PRIVATE_KEY,               \* src/index.ts:49
    SVM_RPC_URL,                   \* src/index.ts:50
    SEPOLIA_RPC_URL,               \* src/index.ts:51
    FILECOIN_CALIBRATION_RPC_URL,  \* src/index.ts:52
    proc,     \* "boot" | "running" | "exited" | "crashed"
    now,      \* Date.now()
    pc,       \* per request: where its handler stands
    route,    \* per request: the endpoint it was sent to
    body,     \* per request: req.body of a POST
    steps,    \* per request: the handler steps executed so far, in order
    calls,    \* per request: the external calls made so far, in order
    resp,     \* per request: the responses sent so far, in order
    local     \* per request: the handler's local variables

env == <<EVM_PRIVATE_KEY, SVM_PRIVATE_KEY, SVM_RPC_URL, SEPOLIA_RPC_URL,
         FILECOIN_CALIBRATION_RPC_URL>>
vars == <<EVM_PRIVATE_KEY, SVM_PRIVATE_KEY, SVM_RPC_URL, SEPOLIA_RPC_URL,
          FILECOIN_CALIBRATION_RPC_URL, proc, now, pc, route, body, steps,
          calls, resp, local>>

\* ------------------------------------------------------------------ bounds

\* The clock is followed up to this many ticks.
MaxTime == 2

\* Request slots. Handlers share no mutable state, Spec follows one request.
Req == {"r1", "r2"}
FirstReq == "r1"

\* ------------------------------------------------------------ value domains

Undefined == "undefined"

\* Values the environment may give each variable ("" when unset, line 48-52).
EvmKeys == {"", "0xEVMKEY"}
SvmKeys == {"", "SVMKEY"}
SvmUrls == {"", "https://svm.rpc"}
SepoliaUrls == {"", "https://sepolia.rpc"}
FilecoinUrls == {"", "https://calibration.rpc"}

\* Network lists of the payment library, as the service announces them.
SupportedEVMNetworks ==
    {"sepolia", "base-sepolia", "base", "mainnet", "polygon", "avalanche",
     "filecoin", "filecoin-calibration"}
SupportedSVMNetworks == {"solana-devnet", "solana"}

\* Networks a request body may name.
RequestNetworks == {"sepolia", "base", "solana-devnet", "unknown-chain"}

\* req.body of POST /verify and POST /settle: the network named by
\* paymentRequirements and whether each part passes its schema.
Bodies == [network : RequestNetworks, reqOk : BOOLEAN, payOk : BOOLEAN]
NoBody == [network |-> Undefined, reqOk |-> FALSE, payOk |-> FALSE]

\* A thrown value: an Error with a message, or a value that is no Error
\* (message then stands for String(value)).
NoThrow == [isError |-> FALSE, message |-> <<>>]
Thrown == {[isError |-> TRUE, message |-> <<"rpc failure">>],
           [isError |-> FALSE, message |-> <<"raw rejection">>]}
ZodRequirements == [isError |-> TRUE, message |-> <<"invalid paymentRequirements">>]
ZodPayload == [isError |-> TRUE, message |-> <<"invalid paymentPayload">>]

\* Outcomes the external verify and settle operations may return.
VerifyOutcomes == {[isValid |-> TRUE], [isValid |-> FALSE]}
SettleOutcomes == {[success |-> TRUE], [success |-> FALSE]}
BlockNumbers == {0, 1}

NoClient == [kind |-> "none", network |-> Undefined, key |-> "", rpcUrl |-> Undefined]
NoStart == -1
NoChecks == [n \in {} |-> 0]

InitLocal == [client |-> NoClient, start |-> NoStart, todo |-> <<>>,
              checks |-> NoChecks, kinds |-> <<>>]

\* ----------------------------------------------------------- configuration

\* The key test left out: every key counts as set.
Missing_Never(key) == FALSE

\* !KEY as the code tests it (an unset variable is "").
Missing(key) == key = ""

\* x402Config.evmConfig.rpcUrls in insertion order (lines 68-73).
EvmRpcUrls ==
    (IF SEPOLIA_RPC_URL # "" THEN <<[name |-> "sepolia", url |-> SEPOLIA_RPC_URL]>>
     ELSE <<>>)
    \o (IF FILECOIN_CALIBRATION_RPC_URL # ""
        THEN <<[name |-> "filecoin-calibration", url |-> FILECOIN_CALIBRATION_RPC_URL]>>
        ELSE <<>>)

\* x402Config (lines 62-77): undefined unless some RPC URL is set.
x402Config ==
    IF SVM_RPC_URL # "" \/ SEPOLIA_RPC_URL # "" \/ FILECOIN_CALIBRATION_RPC_URL # ""
    THEN [defined |-> TRUE,
          svmConfig |-> IF SVM_RPC_URL # "" THEN SVM_RPC_URL ELSE Undefined,
          rpcUrls |-> EvmRpcUrls]
    ELSE [defined |-> FALSE, svmConfig |-> Undefined, rpcUrls |-> <<>>]

\* The first configured URL taken whatever the network.
RpcUrlFor_First(network) ==
    IF Len(x402Config.rpcUrls) > 0 THEN x402Config.rpcUrls[1].url ELSE Undefined

\* x402Config?.evmConfig?.rpcUrls?.[network]
RpcUrlFor(network) ==
    IF \E i \in 1..Len(x402Config.rpcUrls) : x402Config.rpcUrls[i].name = network
    THEN (CHOOSE e \in {x402Config.rpcUrls[i] : i \in 1..Len(x402Config.rpcUrls)} :
              e.name = network).url
    ELSE Undefined

\* ------------------------------------------------------------- small helpers

NoValue == <<>>

\* The record of one external call: what was called with which arguments,
\* when, and how it ended ("pending" while the handler awaits it).
Call(fn, network, key, rpcUrl, client, config, state, thrown, value) ==
    [fn |-> fn, network |-> network, key |-> key, rpcUrl |-> rpcUrl,
     client |-> client, config |-> config, at |-> now,
     doneAt |-> IF state = "pending" THEN NoStart ELSE now,
     state |-> state, thrown |-> thrown, value |-> value]

NoConfig == [defined |-> FALSE, svmConfig |-> Undefined, rpcUrls |-> <<>>]

\* The awaited call (the last one made) settles now.
Settled(cs, state, thrown, value) ==
    [cs EXCEPT ![Len(cs)] =
        [@ EXCEPT !.state = state, !.doneAt = now, !.thrown = thrown, !.value = value]]

ErrorBody(message) == [kind |-> "error", error |-> message]
Response(status, b) == [status |-> status, body |-> b]

\* isSvmSignerWallet(signer): createSigner gives an SVM wallet for SVM networks.
isSvmSignerWallet(signer) ==
    signer.kind = "signer" /\ signer.network \in SupportedSVMNetworks

\* --------------------------------------------------- process start (46-60)

Init ==
    /\ EVM_PRIVATE_KEY \in EvmKeys
    /\ SVM_PRIVATE_KEY \in SvmKeys
    /\ SVM_RPC_URL \in SvmUrls
    /\ SEPOLIA_RPC_URL \in SepoliaUrls
    /\ FILECOIN_CALIBRATION_RPC_URL \in FilecoinUrls
    /\ proc = "boot"
    /\ now = 0
    /\ pc = [r \in Req |-> "idle"]
    /\ route = [r \in Req |-> "none"]
    /\ body = [r \in Req |-> NoBody]
    /\ steps = [r \in Req |-> <<>>]
    /\ calls = [r \in Req |-> <<>>]
    /\ resp = [r \in Req |-> <<>>]
    /\ local = [r \in Req |-> InitLocal]

\* The start-up test with its negations dropped: exit when both keys are set.
NoKeyAtAll_Negated == ~Missing(EVM_PRIVATE_KEY) /\ ~Missing(SVM_PRIVATE_KEY)

\* Line 56: neither key is set.
NoKeyAtAll == Missing(EVM_PRIVATE_KEY) /\ Missing(SVM_PRIVATE_KEY)

\* Lines 56-60 and 351: exit(1) when no key is set, else listen.
Boot ==
    /\ proc = "boot"
    /\ proc' = IF NoKeyAtAll THEN "exited" ELSE "running"
    /\ UNCHANGED <<env, now, pc, route, body, steps, calls, resp, local>>

\* Time passes. Only GET /health/rpc reads the clock into its results, so the
\* clock is followed while such a request is being handled.
Tick ==
    /\ proc = "running"
    /\ now < MaxTime
    /\ \E r \in Req : route[r] = "healthRpc" /\ pc[r] # "done"
    /\ now' = now + 1
    /\ UNCHANGED <<env, proc, pc, route, body, steps, calls, resp, local>>

\* A request reaches its handler.
Accepts(r) == proc = "running" /\ pc[r] = "idle"

\* ------------------------------------------- POST /verify and POST /settle

\* Message of the catch block: error.message of an Error, else the fallback.
CaughtMessage(e, fallback) == IF e.isError THEN e.message ELSE <<fallback>>

\* Lines 248 and 346.
Fallback(rt) == IF rt = "verify" THEN "Invalid request" ELSE "Settlement failed"

\* Whatever is not an SVM network taken for an EVM network.
IsEvmNetwork_NotSvm(network) == network \notin SupportedSVMNetworks

IsEvmNetwork(network) == network \in SupportedEVMNetworks
IsSvmNetwork(network) == network \in SupportedSVMNetworks

\* The payload parsed only once the network is classified and its key checked.
Dispatch_PayloadLate(b) ==
    IF ~b.reqOk
    THEN [steps |-> <<"parseRequirements">>, verdict |-> "throw",
          thrown |-> ZodRequirements]
    ELSE IF b.network \in SupportedEVMNetworks \cup SupportedSVMNetworks
    THEN LET key == IF b.network \in SupportedEVMNetworks THEN EVM_PRIVATE_KEY
                    ELSE SVM_PRIVATE_KEY
             fam == IF b.network \in SupportedEVMNetworks THEN "evm" ELSE "svm"
         IN IF key = ""
            THEN [steps |-> <<"parseRequirements", "classify", "checkKey">>,
                  verdict |-> IF fam = "evm" THEN "evm503" ELSE "svm503",
                  thrown |-> NoThrow]
            ELSE IF ~b.payOk
            THEN [steps |-> <<"parseRequirements", "classify", "checkKey",
                              "parsePayload">>,
                  verdict |-> "throw", thrown |-> ZodPayload]
            ELSE [steps |-> <<"parseRequirements", "classify", "checkKey",
                              "parsePayload">>,
                  verdict |-> fam, thrown |-> NoThrow]
    ELSE [steps |-> <<"parseRequirements", "classify">>,
          verdict |-> "unsupported", thrown |-> NoThrow]

\* The synchronous head of both handlers (lines 216-236 and 303-323): parse
\* the requirements, parse the payload, classify the network, check the
\* family's key. Gives the steps taken and where they lead.
Dispatch(b) ==
    IF ~b.reqOk
    THEN [steps |-> <<"parseRequirements">>, verdict |-> "throw",
          thrown |-> ZodRequirements]
    ELSE IF ~b.payOk
    THEN [steps |-> <<"parseRequirements", "parsePayload">>, verdict |-> "throw",
          thrown |-> ZodPayload]
    ELSE IF IsEvmNetwork(b.network)
    THEN [steps |-> <<"parseRequirements", "parsePayload", "classify", "checkKey">>,
          verdict |-> IF Missing(EVM_PRIVATE_KEY) THEN "evm503" ELSE "evm",
          thrown |-> NoThrow]
    ELSE IF IsSvmNetwork(b.network)
    THEN [steps |-> <<"parseRequirements", "parsePayload", "classify", "checkKey">>,
          verdict |-> IF Missing(SVM_PRIVATE_KEY) THEN "svm503" ELSE "svm",
          thrown |-> NoThrow]
    ELSE [steps |-> <<"parseRequirements", "parsePayload", "classify">>,
          verdict |-> "unsupported", thrown |-> NoThrow]

\* The response of a request that ends in the synchronous head.
Rejection(d, rt, b) ==
    CASE d.verdict = "throw" ->
            Response(400, ErrorBody(CaughtMessage(d.thrown, Fallback(rt))))
      [] d.verdict = "evm503" ->
            Response(503, ErrorBody(<<"EVM payments not supported">>))
      [] d.verdict = "svm503" ->
            Response(503, ErrorBody(<<"SVM payments not supported">>))
      [] d.verdict = "unsupported" ->
            Response(400, ErrorBody(<<"Unsupported network: ", b.network>>))

\* A caught exception reported as a server error.
Caught_ServerError(rt, e) == Response(500, ErrorBody(CaughtMessage(e, Fallback(rt))))

\* The catch block (lines 240-250, 338-348): 400 with the caught message.
Caught(rt, e) == Response(400, ErrorBody(CaughtMessage(e, Fallback(rt))))

\* The request ends before any provisioning: a schema error, an unsupported
\* network, or a family without key.
PostRejected(r, rt, b) ==
    /\ Accepts(r)
    /\ LET d == Dispatch(b) IN
        /\ d.verdict \in {"throw", "evm503", "svm503", "unsupported"}
        /\ steps' = [steps EXCEPT ![r] = d.steps]
        /\ resp' = [resp EXCEPT ![r] = Append(@, Rejection(d, rt, b))]
    /\ route' = [route EXCEPT ![r] = rt]
    /\ body' = [body EXCEPT ![r] = b]
    /\ pc' = [pc EXCEPT ![r] = "done"]
    /\ UNCHANGED <<env, proc, now, calls, local>>

\* POST /verify on an EVM network (lines 227-228, 238): createConnectedClient
\* returns a client at once and the handler awaits verify.
VerifyEvmProvision(r, b) ==
    /\ Accepts(r)
    /\ Dispatch(b).verdict = "evm"
    /\ LET url == RpcUrlFor(b.network)
           client == [kind |-> "client", network |-> b.network, key |-> "",
                      rpcUrl |-> url]
       IN /\ calls' = [calls EXCEPT ![r] =
                <<Call("createConnectedClient", b.network, "", url, NoClient,
                       NoConfig, "returned", NoThrow, <<client>>),
                  Call("verify", b.network, "", Undefined, client, x402Config,
                       "pending", NoThrow, NoValue)>>]
          /\ local' = [local EXCEPT ![r].client = client]
    /\ steps' = [steps EXCEPT ![r] = Dispatch(b).steps \o <<"provision", "invoke">>]
    /\ route' = [route EXCEPT ![r] = "verify"]
    /\ body' = [body EXCEPT ![r] = b]
    /\ pc' = [pc EXCEPT ![r] = "awaitInvoke"]
    /\ UNCHANGED <<env, proc, now, resp>>

\* createConnectedClient throws (it is synchronous): caught at line 240.
VerifyEvmProvisionThrows(r, b, e) ==
    /\ Accepts(r)
    /\ Dispatch(b).verdict = "evm"
    /\ calls' = [calls EXCEPT ![r] =
            <<Call("createConnectedClient", b.network, "", RpcUrlFor(b.network),
                   NoClient, NoConfig, "threw", e, NoValue)>>]
    /\ steps' = [steps EXCEPT ![r] = Dispatch(b).steps \o <<"provision">>]
    /\ resp' = [resp EXCEPT ![r] = Append(@, Caught("verify", e))]
    /\ route' = [route EXCEPT ![r] = "verify"]
    /\ body' = [body EXCEPT ![r] = b]
    /\ pc' = [pc EXCEPT ![r] = "done"]
    /\ UNCHANGED <<env, proc, now, local>>

\* The arguments of the createSigner call of a request (lines 233, 315, 320):
\* the family's key, and the custom RPC URL on POST /settle for an EVM network.
SignerArgs(rt, b) ==
    IF Dispatch(b).verdict = "evm"
    THEN [key |-> EVM_PRIVATE_KEY, rpcUrl |-> RpcUrlFor(b.network)]
    ELSE [key |-> SVM_PRIVATE_KEY, rpcUrl |-> Undefined]

\* POST /verify made to provision a signer on EVM networks too.
SignerFamilies_Both(rt) == {"evm", "svm"}

\* The families for which the route provisions with createSigner: both on
\* POST /settle (lines 315, 320), SVM alone on POST /verify (line 233).
SignerFamilies(rt) == IF rt = "settle" THEN {"evm", "svm"} ELSE {"svm"}

\* An in-flight guard before provisioning: a request whose route and body
\* equal those of a request still in flight is turned away with 409.
CreateSigner_Dedup(r, rt, b) ==
    /\ Accepts(r)
    /\ Dispatch(b).verdict \in (IF rt = "settle" THEN {"evm", "svm"} ELSE {"svm"})
    /\ IF \E q \in Req \ {r} :
             /\ pc[q] \in {"awaitCreateSigner", "awaitInvoke"}
             /\ route[q] = rt /\ body[q] = b
       THEN /\ resp' = [resp EXCEPT ![r] =
                    Append(@, Response(409, ErrorBody(<<"Settlement in flight">>)))]
            /\ steps' = [steps EXCEPT ![r] = Dispatch(b).steps]
            /\ pc' = [pc EXCEPT ![r] = "done"]
            /\ UNCHANGED calls
       ELSE /\ calls' = [calls EXCEPT ![r] =
                    <<Call("createSigner", b.network,
                           IF Dispatch(b).verdict = "evm" THEN EVM_PRIVATE_KEY
                           ELSE SVM_PRIVATE_KEY,
                           IF Dispatch(b).verdict = "evm" THEN RpcUrlFor(b.network)
                           ELSE Undefined,
                           NoClient, NoConfig, "pending", NoThrow, NoValue)>>]
            /\ steps' = [steps EXCEPT ![r] = Dispatch(b).steps \o <<"provision">>]
            /\ pc' = [pc EXCEPT ![r] = "awaitCreateSigner"]
            /\ UNCHANGED resp
    /\ route' = [route EXCEPT ![r] = rt]
    /\ body' = [body EXCEPT ![r] = b]
    /\ UNCHANGED <<env, proc, now, local>>

\* The handler calls createSigner and awaits it: POST /verify on an SVM
\* network, POST /settle on an EVM or an SVM network.
CreateSigner(r, rt, b) ==
    /\ Accepts(r)
    /\ Dispatch(b).verdict \in SignerFamilies(rt)
    /\ calls' = [calls EXCEPT ![r] =
            <<Call("createSigner", b.network, SignerArgs(rt, b).key,
                   SignerArgs(rt, b).rpcUrl, NoClient, NoConfig, "pending",
                   NoThrow, NoValue)>>]
    /\ steps' = [steps EXCEPT ![r] = Dispatch(b).steps \o <<"provision">>]
    /\ route' = [route EXCEPT ![r] = rt]
    /\ body' = [body EXCEPT ![r] = b]
    /\ pc' = [pc EXCEPT ![r] = "awaitCreateSigner"]
    /\ UNCHANGED <<env, proc, now, resp, local>>

\* createSigner returns: the handler calls verify or settle with the signer
\* and x402Config, and awaits it (lines 238, 325).
SignerReturns(r) ==
    /\ proc = "running"
    /\ pc[r] = "awaitCreateSigner"
    /\ LET c == calls[r][Len(calls[r])]
           signer == [kind |-> "signer", network |-> c.network, key |-> c.key,
                      rpcUrl |-> c.rpcUrl]
       IN /\ calls' = [calls EXCEPT ![r] =
                Append(Settled(@, "returned", NoThrow, <<signer>>),
                       Call(route[r], body[r].network, "", Undefined, signer,
                            x402Config, "pending", NoThrow, NoValue))]
          /\ local' = [local EXCEPT ![r].client = signer]
    /\ steps' = [steps EXCEPT ![r] = Append(@, "invoke")]
    /\ pc' = [pc EXCEPT ![r] = "awaitInvoke"]
    /\ UNCHANGED <<env, proc, now, route, body, resp>>

\* createSigner rejects: caught.
SignerThrows(r, e) ==
    /\ proc = "running"
    /\ pc[r] = "awaitCreateSigner"
    /\ calls' = [calls EXCEPT ![r] = Settled(@, "threw", e, NoValue)]
    /\ resp' = [resp EXCEPT ![r] = Append(@, Caught(route[r], e))]
    /\ pc' = [pc EXCEPT ![r] = "done"]
    /\ UNCHANGED <<env, proc, now, route, body, steps, local>>

Outcomes(rt) == IF rt = "verify" THEN VerifyOutcomes ELSE SettleOutcomes

\* The outcome answered as a freshly built success report.
OutcomeBody_Rebuilt(out) == [kind |-> "outcome", value |-> [success |-> TRUE]]

\* res.json(result): the outcome itself is the body (lines 239, 337).
OutcomeBody(out) == [kind |-> "outcome", value |-> out]

\* verify or settle returns: res.json(result) (lines 239, 337).
InvokeReturns(r, out) ==
    /\ proc = "running"
    /\ pc[r] = "awaitInvoke"
    /\ out \in Outcomes(route[r])
    /\ calls' = [calls EXCEPT ![r] = Settled(@, "returned", NoThrow, <<out>>)]
    /\ resp' = [resp EXCEPT ![r] =
            Append(@, Response(200, OutcomeBody(out)))]
    /\ pc' = [pc EXCEPT ![r] = "done"]
    /\ UNCHANGED <<env, proc, now, route, body, steps, local>>

\* A rejected settle tried once more before the error is reported.
InvokeThrows_Retry(r, e) ==
    /\ proc = "running"
    /\ pc[r] = "awaitInvoke"
    /\ IF route[r] = "settle" /\ Len(calls[r]) < 3
       THEN /\ calls' = [calls EXCEPT ![r] =
                    Append(Settled(@, "threw", e, NoValue),
                           [calls[r][Len(calls[r])] EXCEPT !.at = now])]
            /\ UNCHANGED <<resp, pc>>
       ELSE /\ calls' = [calls EXCEPT ![r] = Settled(@, "threw", e, NoValue)]
            /\ resp' = [resp EXCEPT ![r] = Append(@, Caught(route[r], e))]
            /\ pc' = [pc EXCEPT ![r] = "done"]
    /\ UNCHANGED <<env, proc, now, route, body, steps, local>>

\* verify or settle rejects: caught.
InvokeThrows(r, e) ==
    /\ proc = "running"
    /\ pc[r] = "awaitInvoke"
    /\ calls' = [calls EXCEPT ![r] = Settled(@, "threw", e, NoValue)]
    /\ resp' = [resp EXCEPT ![r] = Append(@, Caught(route[r], e))]
    /\ pc' = [pc EXCEPT ![r] = "done"]
    /\ UNCHANGED <<env, proc, now, route, body, steps, local>>

\* ------------------------------------------------------- GET /health (111)

HealthArrive(r) ==
    /\ Accepts(r)
    /\ route' = [route EXCEPT ![r] = "health"]
    /\ resp' = [resp EXCEPT ![r] =
            Append(@, Response(200, [kind |-> "liveness", status |-> "healthy",
                                     evm |-> ~Missing(EVM_PRIVATE_KEY),
                                     svm |-> ~Missing(SVM_PRIVATE_KEY)]))]
    /\ pc' = [pc EXCEPT ![r] = "done"]
    /\ UNCHANGED <<env, proc, now, body, steps, calls, local>>

\* --------------------------------------------------- GET /supported (261)

EvmKindNetworks ==
    <<"sepolia", "base-sepolia", "base", "mainnet", "polygon", "avalanche",
      "filecoin", "filecoin-calibration">>

NoFeePayer == "none"

\* The EVM kinds pushed whether or not the EVM key is set.
EvmKinds_Always(key) ==
    [i \in 1..Len(EvmKindNetworks) |->
        [scheme |-> "exact", network |-> EvmKindNetworks[i], feePayer |-> NoFeePayer]]

\* Lines 264-275: the EVM kinds, pushed when the EVM key is set.
EvmKinds(key) ==
    IF ~Missing(key)
    THEN [i \in 1..Len(EvmKindNetworks) |->
            [scheme |-> "exact", network |-> EvmKindNetworks[i], feePayer |-> NoFeePayer]]
    ELSE <<>>

\* Lines 279-294: the SVM kinds, with the signer's address as fee payer.
SvmKinds(signer) ==
    LET feePayer == IF isSvmSignerWallet(signer) THEN <<"address", signer.key>>
                    ELSE Undefined
    IN <<[scheme |-> "exact", network |-> "solana-devnet", feePayer |-> feePayer],
         [scheme |-> "exact", network |-> "solana", feePayer |-> feePayer]>>

\* No SVM key: the answer is ready at once (line 297).
SupportedNoSvm(r) ==
    /\ Accepts(r)
    /\ Missing(SVM_PRIVATE_KEY)
    /\ route' = [route EXCEPT ![r] = "supported"]
    /\ local' = [local EXCEPT ![r].kinds = EvmKinds(EVM_PRIVATE_KEY)]
    /\ resp' = [resp EXCEPT ![r] =
            Append(@, Response(200, [kind |-> "kinds",
                                     kinds |-> EvmKinds(EVM_PRIVATE_KEY)]))]
    /\ pc' = [pc EXCEPT ![r] = "done"]
    /\ UNCHANGED <<env, proc, now, body, steps, calls>>

\* An SVM key: the handler awaits createSigner("solana-devnet") (line 278).
SupportedCreateSigner(r) ==
    /\ Accepts(r)
    /\ ~Missing(SVM_PRIVATE_KEY)
    /\ route' = [route EXCEPT ![r] = "supported"]
    /\ local' = [local EXCEPT ![r].kinds = EvmKinds(EVM_PRIVATE_KEY)]
    /\ calls' = [calls EXCEPT ![r] =
            <<Call("createSigner", "solana-devnet", SVM_PRIVATE_KEY, Undefined,
                   NoClient, NoConfig, "pending", NoThrow, NoValue)>>]
    /\ pc' = [pc EXCEPT ![r] = "awaitSupportedSigner"]
    /\ UNCHANGED <<env, proc, now, body, steps, resp>>

SupportedSignerReturns(r) ==
    /\ proc = "running"
    /\ pc[r] = "awaitSupportedSigner"
    /\ LET c == calls[r][Len(calls[r])]
           signer == [kind |-> "signer", network |-> c.network, key |-> c.key,
                      rpcUrl |-> c.rpcUrl]
           kinds == local[r].kinds \o SvmKinds(signer)
       IN /\ calls' = [calls EXCEPT ![r] = Settled(@, "returned", NoThrow, <<signer>>)]
          /\ local' = [local EXCEPT ![r].kinds = kinds]
          /\ resp' = [resp EXCEPT ![r] =
                Append(@, Response(200, [kind |-> "kinds", kinds |-> kinds]))]
    /\ pc' = [pc EXCEPT ![r] = "done"]
    /\ UNCHANGED <<env, proc, now, route, body, steps>>

\* What becomes of a rejection that leaves an async handler (the handler of
\* GET /supported has no try): with Express 4 nothing answers the request,
\* and Node ends the process on the unhandled rejection unless told to warn;
\* Express 5 hands it to the default error handler, which answers 500 with
\* an HTML page.
Escapes == {"crash", "hang", "default500"}

\* createSigner rejects: nothing in the handler catches it (lines 277-278).
SupportedSignerThrows(r, e, how) ==
    /\ proc = "running"
    /\ pc[r] = "awaitSupportedSigner"
    /\ calls' = [calls EXCEPT ![r] = Settled(@, "threw", e, NoValue)]
    /\ proc' = IF how = "crash" THEN "crashed" ELSE proc
    /\ resp' = [resp EXCEPT ![r] =
            IF how = "default500" THEN Append(@, Response(500, [kind |-> "html"]))
            ELSE @]
    /\ pc' = [pc EXCEPT ![r] = IF how = "default500" THEN "done" ELSE "escaped"]
    /\ UNCHANGED <<env, now, route, body, steps, local>>

\* ------------------------------------------------- GET /health/rpc (122)

NoError == <<>>

\* Line 144, 166.
ProbeError(e) == IF e.isError THEN e.message ELSE <<"Unknown error">>

\* The start time taken once, before the first probe.
ProbeStart_Hoisted(previous, t) == IF previous = NoStart THEN t ELSE previous

\* const start = Date.now() of one probe (lines 129, 152): taken anew for
\* each network.
ProbeStart(previous, t) == t

\* checks[name] = entry
Put(checks, name, entry) ==
    [n \in DOMAIN checks \cup {name} |-> IF n = name THEN entry ELSE checks[n]]

\* Lines 135-139 and 157-160.
Passed(healthy, start) ==
    [healthy |-> healthy, latency |-> now - start, error |-> NoError]

\* Lines 141-145 and 163-167.
Failed(e, start) ==
    [healthy |-> FALSE, latency |-> now - start, error |-> ProbeError(e)]

\* some() in place of every().
AllHealthy_Some(checks) == \E n \in DOMAIN checks : checks[n].healthy

\* Line 171.
AllHealthy(checks) == \A n \in DOMAIN checks : checks[n].healthy

\* Lines 171-178.
HealthReport(checks) ==
    Response(IF AllHealthy(checks) THEN 200 ELSE 503,
             [kind |-> "rpcHealth",
              status |-> IF AllHealthy(checks) THEN "healthy" ELSE "degraded",
              checks |-> checks])

\* Line 126: the EVM endpoints are probed when rpcUrls exists and the EVM key
\* is set; the loop goes over the entries of rpcUrls in order.
HealthRpcArrive(r) ==
    /\ Accepts(r)
    /\ route' = [route EXCEPT ![r] = "healthRpc"]
    /\ local' = [local EXCEPT ![r].todo =
            IF Len(x402Config.rpcUrls) > 0 /\ ~Missing(EVM_PRIVATE_KEY)
            THEN x402Config.rpcUrls ELSE <<>>]
    /\ pc' = [pc EXCEPT ![r] = "evmLoop"]
    /\ UNCHANGED <<env, proc, now, body, steps, calls, resp>>

\* One turn of the loop (lines 127-134): take the start time, make the client
\* and await its block number. (rpcUrls holds no empty URL, line 128 never
\* skips.)
HealthEvmProbe(r) ==
    /\ proc = "running"
    /\ pc[r] = "evmLoop"
    /\ local[r].todo # <<>>
    /\ LET e == Head(local[r].todo)
           client == [kind |-> "client", network |-> e.name, key |-> "",
                      rpcUrl |-> e.url]
       IN /\ e.url # ""
          /\ calls' = [calls EXCEPT ![r] = @ \o
                <<Call("createConnectedClient", e.name, "", e.url, NoClient,
                       NoConfig, "returned", NoThrow, <<client>>),
                  Call("getBlockNumber", e.name, "", e.url, client, NoConfig,
                       "pending", NoThrow, NoValue)>>]
          /\ local' = [local EXCEPT ![r].start = ProbeStart(@, now)]
    /\ pc' = [pc EXCEPT ![r] = "awaitBlockNumber"]
    /\ UNCHANGED <<env, proc, now, route, body, steps, resp>>

\* createConnectedClient throws: caught at line 140, the loop goes on.
HealthEvmClientThrows(r, x) ==
    /\ proc = "running"
    /\ pc[r] = "evmLoop"
    /\ local[r].todo # <<>>
    /\ LET e == Head(local[r].todo)
           start == ProbeStart(local[r].start, now)
       IN /\ e.url # ""
          /\ calls' = [calls EXCEPT ![r] = Append(@,
                Call("createConnectedClient", e.name, "", e.url, NoClient,
                     NoConfig, "threw", x, NoValue))]
          /\ local' = [local EXCEPT ![r].start = start,
                                    ![r].checks = Put(@, e.name, Failed(x, start)),
                                    ![r].todo = Tail(@)]
    /\ UNCHANGED <<env, proc, now, pc, route, body, steps, resp>>

\* getBlockNumber returns (lines 134-139).
HealthBlockNumberReturns(r, blockNumber) ==
    /\ proc = "running"
    /\ pc[r] = "awaitBlockNumber"
    /\ calls' = [calls EXCEPT ![r] = Settled(@, "returned", NoThrow, <<blockNumber>>)]
    /\ local' = [local EXCEPT
            ![r].checks = Put(@, Head(local[r].todo).name,
                              Passed(blockNumber > 0, local[r].start)),
            ![r].todo = Tail(@)]
    /\ pc' = [pc EXCEPT ![r] = "evmLoop"]
    /\ UNCHANGED <<env, proc, now, route, body, steps, resp>>

\* getBlockNumber rejects (lines 140-146).
HealthBlockNumberThrows(r, x) ==
    /\ proc = "running"
    /\ pc[r] = "awaitBlockNumber"
    /\ calls' = [calls EXCEPT ![r] = Settled(@, "threw", x, NoValue)]
    /\ local' = [local EXCEPT
            ![r].checks = Put(@, Head(local[r].todo).name, Failed(x, local[r].start)),
            ![r].todo = Tail(@)]
    /\ pc' = [pc EXCEPT ![r] = "evmLoop"]
    /\ UNCHANGED <<env, proc, now, route, body, steps, resp>>

\* The SVM endpoint probed whenever the SVM key is set.
ProbesSvm_KeyOnly == ~Missing(SVM_PRIVATE_KEY)

\* Line 151: the SVM endpoint is probed when SVM_RPC_URL and the SVM key are set.
ProbesSvm == SVM_RPC_URL # "" /\ ~Missing(SVM_PRIVATE_KEY)

\* After the loop, the SVM probe (lines 152-154): await createSigner.
HealthSvmProbe(r) ==
    /\ proc = "running"
    /\ pc[r] = "evmLoop"
    /\ local[r].todo = <<>>
    /\ ProbesSvm
    /\ calls' = [calls EXCEPT ![r] = Append(@,
            Call("createSigner", "solana-devnet", SVM_PRIVATE_KEY, Undefined,
                 NoClient, NoConfig, "pending", NoThrow, NoValue))]
    /\ local' = [local EXCEPT ![r].start = ProbeStart(@, now)]
    /\ pc' = [pc EXCEPT ![r] = "awaitHealthSigner"]
    /\ UNCHANGED <<env, proc, now, route, body, steps, resp>>

\* After the loop, no SVM probe: the report is sent (lines 171-178).
HealthNoSvm(r) ==
    /\ proc = "running"
    /\ pc[r] = "evmLoop"
    /\ local[r].todo = <<>>
    /\ ~ProbesSvm
    /\ resp' = [resp EXCEPT ![r] = Append(@, HealthReport(local[r].checks))]
    /\ pc' = [pc EXCEPT ![r] = "done"]
    /\ UNCHANGED <<env, proc, now, route, body, steps, calls, local>>

\* createSigner returns (lines 155-161), then the report.
HealthSignerReturns(r) ==
    /\ proc = "running"
    /\ pc[r] = "awaitHealthSigner"
    /\ LET c == calls[r][Len(calls[r])]
           signer == [kind |-> "signer", network |-> c.network, key |-> c.key,
                      rpcUrl |-> c.rpcUrl]
           checks == IF isSvmSignerWallet(signer)
                     THEN Put(local[r].checks, "solana-devnet",
                              Passed(TRUE, local[r].start))
                     ELSE local[r].checks
       IN /\ calls' = [calls EXCEPT ![r] = Settled(@, "returned", NoThrow, <<signer>>)]
          /\ local' = [local EXCEPT ![r].checks = checks]
          /\ resp' = [resp EXCEPT ![r] = Append(@, HealthReport(checks))]
    /\ pc' = [pc EXCEPT ![r] = "done"]
    /\ UNCHANGED <<env, proc, now, route, body, steps>>

\* createSigner rejects (lines 162-168), then the report.
HealthSignerThrows(r, x) ==
    /\ proc = "running"
    /\ pc[r] = "awaitHealthSigner"
    /\ LET checks == Put(local[r].checks, "solana-devnet", Failed(x, local[r].start))
       IN /\ calls' = [calls EXCEPT ![r] = Settled(@, "threw", x, NoValue)]
          /\ local' = [local EXCEPT ![r].checks = checks]
          /\ resp' = [resp EXCEPT ![r] = Append(@, HealthReport(checks))]
    /\ pc' = [pc EXCEPT ![r] = "done"]
    /\ UNCHANGED <<env, proc, now, route, body, steps>>

\* ------------------------------------------------------------ specification

\* Every step the handler of request r may take.
Handle(r) ==
    \/ \E rt \in {"verify", "settle"}, b \in Bodies : PostRejected(r, rt, b)
    \/ \E b \in Bodies : VerifyEvmProvision(r, b)
    \/ \E b \in Bodies, e \in Thrown : VerifyEvmProvisionThrows(r, b, e)
    \/ \E rt \in {"verify", "settle"}, b \in Bodies : CreateSigner(r, rt, b)
    \/ SignerReturns(r)
    \/ \E e \in Thrown : SignerThrows(r, e)
    \/ \E out \in VerifyOutcomes \cup SettleOutcomes : InvokeReturns(r, out)
    \/ \E e \in Thrown : InvokeThrows(r, e)
    \/ HealthArrive(r)
    \/ SupportedNoSvm(r)
    \/ SupportedCreateSigner(r)
    \/ SupportedSignerReturns(r)
    \/ \E e \in Thrown, how \in Escapes : SupportedSignerThrows(r, e, how)
    \/ HealthRpcArrive(r)
    \/ HealthEvmProbe(r)
    \/ \E x \in Thrown : HealthEvmClientThrows(r, x)
    \/ \E n \in BlockNumbers : HealthBlockNumberReturns(r, n)
    \/ \E x \in Thrown : HealthBlockNumberThrows(r, x)
    \/ HealthSvmProbe(r)
    \/ HealthNoSvm(r)
    \/ HealthSignerReturns(r)
    \/ \E x \in Thrown : HealthSignerThrows(r, x)

\* One request: handlers share no mutable state, so what one request does
\* does not depend on the others in flight.
Next == Boot \/ Tick \/ Handle(FirstReq)

Spec == Init /\ [][Next]_vars

\* Every step the handler of a POST /settle request r may take.
HandleSettle(r) ==
    \/ \E b \in Bodies : PostRejected(r, "settle", b)
    \/ \E b \in Bodies : CreateSigner(r, "settle", b)
    \/ SignerReturns(r)
    \/ \E e \in Thrown : SignerThrows(r, e)
    \/ \E out \in SettleOutcomes : InvokeReturns(r, out)
    \/ \E e \in Thrown : InvokeThrows(r, e)

\* POST /settle requests in flight together: each handler runs up to its
\* next await, and the handlers of different requests interleave at the
\* awaits.
ConcNext == Boot \/ \E r \in Req : HandleSettle(r)

ConcSpec == Init /\ [][ConcNext]_vars

\* The steps of request r that wait for nothing outside the process: the
\* turns of the probe loop and what follows it, which run as soon as the
\* awaited promise before them has settled.
Internal(r) ==
    \/ HealthEvmProbe(r)
    \/ \E x \in Thrown : HealthEvmClientThrows(r, x)
    \/ HealthSvmProbe(r)
    \/ HealthNoSvm(r)

\* The service under the scheduling the runtime guarantees: the process
\* starts, time passes and ready continuations run. Nothing makes a request
\* arrive, and nothing in the process makes an external call settle: an
\* await has no timer beside it.
FairSpec ==
    /\ Init /\ [][Next]_vars
    /\ WF_vars(Boot)
    /\ WF_vars(Tick)
    /\ WF_vars(Internal(FirstReq))

\* ------------------------------------------------------------------ claims

Posts == {"verify", "settle"}

\* The request was sent to POST /verify or POST /settle.
IsPost(r) == route[r] \in Posts

Unsupported(network) == network \notin SupportedEVMNetworks \cup SupportedSVMNetworks

\* The family of the network has no key configured.
FamilyWithoutKey(network) ==
    \/ network \in SupportedEVMNetworks /\ EVM_PRIVATE_KEY = ""
    \/ network \in SupportedSVMNetworks /\ SVM_PRIVATE_KEY = ""

NotSupportedText(network) ==
    IF network \in SupportedEVMNetworks THEN <<"EVM payments not supported">>
    ELSE <<"SVM payments not supported">>

\* The request got exactly this answer and its handler is through.
AnsweredWith(r, status, message) ==
    /\ pc[r] = "done"
    /\ resp[r] = <<[status |-> status, body |-> [kind |-> "error", error |-> message]]>>

\* C1 as stated: a POST whose paymentRequirements are schema-valid and name a
\* network in neither list is answered 400 "Unsupported network: <network>",
\* and makes no external call.
C1_AsStated ==
    \A r \in Req :
        IsPost(r) /\ body[r].reqOk /\ Unsupported(body[r].network)
        => /\ AnsweredWith(r, 400, <<"Unsupported network: ", body[r].network>>)
           /\ calls[r] = <<>>

\* C1 amended: a POST whose paymentRequirements and paymentPayload are both
\* schema-valid and whose network is in neither list is answered 400
\* "Unsupported network: <network>", whatever keys are configured, and makes
\* no external call.
C1_UnsupportedNetwork ==
    \A r \in Req :
        IsPost(r) /\ body[r].reqOk /\ body[r].payOk /\ Unsupported(body[r].network)
        => /\ AnsweredWith(r, 400, <<"Unsupported network: ", body[r].network>>)
           /\ calls[r] = <<>>

C1_Witness ==
    \E r \in Req :
        /\ route[r] = "settle"
        /\ body[r] = [network |-> "unknown-chain", reqOk |-> TRUE, payOk |-> TRUE]
        /\ EVM_PRIVATE_KEY # "" /\ SVM_PRIVATE_KEY # ""
        /\ pc[r] = "done"
        /\ resp[r][1].status = 400

\* C2 as stated: a POST whose network belongs to a family without key is
\* answered 503 "<FAMILY> payments not supported" and makes no provisioning
\* or other external call.
C2_AsStated ==
    \A r \in Req :
        IsPost(r) /\ FamilyWithoutKey(body[r].network)
        => /\ AnsweredWith(r, 503, NotSupportedText(body[r].network))
           /\ calls[r] = <<>>

\* C2 amended: a POST that passes schema validation and whose network belongs
\* to a family without key is answered 503 "<FAMILY> payments not supported",
\* without any provisioning or other external call, before or after.
C2_CredentialsNotConfigured ==
    \A r \in Req :
        IsPost(r) /\ body[r].reqOk /\ body[r].payOk
                  /\ FamilyWithoutKey(body[r].network)
        => /\ AnsweredWith(r, 503, NotSupportedText(body[r].network))
           /\ calls[r] = <<>>

C2_Witness ==
    \E r \in Req :
        /\ route[r] = "settle"
        /\ body[r] = [network |-> "solana-devnet", reqOk |-> TRUE, payOk |-> TRUE]
        /\ EVM_PRIVATE_KEY # "" /\ SVM_PRIVATE_KEY = ""
        /\ resp[r] = <<[status |-> 503,
                        body |-> [kind |-> "error",
                                  error |-> <<"SVM payments not supported">>]]>>

\* The steps after validation.
LaterSteps == {"classify", "checkKey", "provision", "invoke"}

StepsTaken(r) == {steps[r][i] : i \in 1..Len(steps[r])}

\* C3: a POST whose paymentRequirements or paymentPayload fails its schema is
\* answered 400 {error} with no classification, key check, provisioning or
\* external call made for it.
C3_ValidationFirst ==
    \A r \in Req :
        IsPost(r) /\ (~body[r].reqOk \/ ~body[r].payOk)
        => /\ pc[r] = "done"
           /\ Len(resp[r]) = 1
           /\ resp[r][1].status = 400
           /\ resp[r][1].body.kind = "error"
           /\ StepsTaken(r) \cap LaterSteps = {}
           /\ calls[r] = <<>>

C3_Witness ==
    \E r \in Req :
        /\ route[r] = "verify"
        /\ body[r].reqOk /\ ~body[r].payOk
        /\ FamilyWithoutKey(body[r].network)
        /\ pc[r] = "done"
        /\ resp[r][1].status = 400

\* The external calls of request r that threw.
ThrownIn(r) ==
    {calls[r][i].thrown : i \in {j \in 1..Len(calls[r]) : calls[r][j].state = "threw"}}

\* C4 as stated: an exception of provisioning or of verify / settle is
\* answered 400 with the underlying message as error.
C4_AsStated ==
    \A r \in Req :
        IsPost(r)
        => \A e \in ThrownIn(r) : AnsweredWith(r, 400, e.message)

\* C4 amended: an exception of provisioning or of verify / settle is caught
\* in the handler and answered 400 {error}, the error being the message of
\* the thrown Error, or the fixed text "Invalid request" (verify),
\* "Settlement failed" (settle) when what was thrown is no Error.
C4_ExceptionsCaught ==
    \A r \in Req :
        IsPost(r)
        => \A e \in ThrownIn(r) :
              AnsweredWith(r, 400,
                  IF e.isError THEN e.message
                  ELSE IF route[r] = "verify" THEN <<"Invalid request">>
                  ELSE <<"Settlement failed">>)

C4_Witness ==
    \E r \in Req :
        /\ route[r] = "settle"
        /\ Len(calls[r]) = 2
        /\ calls[r][2].fn = "settle"
        /\ calls[r][2].state = "threw"
        /\ ~calls[r][2].thrown.isError
        /\ resp[r] = <<[status |-> 400,
                        body |-> [kind |-> "error", error |-> <<"Settlement failed">>]]>>

\* The handler of request r has run to its end, or was left by a rejection.
Over(r) == pc[r] \in {"done", "escaped"}

\* An operation of request r failed: an external call threw, or the request
\* was refused.
FailedIn(r) ==
    \/ ThrownIn(r) # {}
    \/ /\ IsPost(r)
       /\ ~body[r].reqOk \/ ~body[r].payOk \/ Unsupported(body[r].network)
          \/ FamilyWithoutKey(body[r].network)

\* C5: no failure of a request's operation ends the process, every request
\* whose handler is over has exactly one response, and that response is a
\* structured {error} body when an operation of the request failed (the
\* report of GET /health/rpc carries its failures per network).
C5_AlwaysAnswered ==
    /\ proc # "crashed"
    /\ \A r \in Req :
          Over(r) => /\ Len(resp[r]) = 1
                     /\ FailedIn(r) /\ route[r] # "healthRpc"
                        => resp[r][1].body.kind = "error"

KindNetworks(kinds) == {kinds[i].network : i \in 1..Len(kinds)}

\* C6: when createSigner throws in GET /supported while the EVM key is set,
\* the response is still delivered and lists the EVM networks, without the
\* SVM entries.
C6_SupportedSurvivesSvmFailure ==
    \A r \in Req :
        route[r] = "supported" /\ EVM_PRIVATE_KEY # "" /\ ThrownIn(r) # {}
        => /\ pc[r] = "done"
           /\ Len(resp[r]) = 1
           /\ resp[r][1].status = 200
           /\ resp[r][1].body.kind = "kinds"
           /\ KindNetworks(resp[r][1].body.kinds) = SupportedEVMNetworks

\* C7: the list of GET /supported holds EVM and SVM networks only, an EVM
\* network only if the EVM key is set, an SVM network only if the SVM key is
\* set.
C7_SupportedOnlyConfigured ==
    \A r \in Req :
        route[r] = "supported" /\ Len(resp[r]) > 0 /\ resp[r][1].status = 200
        => \A n \in KindNetworks(resp[r][1].body.kinds) :
              \/ n \in SupportedEVMNetworks /\ EVM_PRIVATE_KEY # ""
              \/ n \in SupportedSVMNetworks /\ SVM_PRIVATE_KEY # ""

C7_Witness ==
    \E r \in Req :
        /\ route[r] = "supported"
        /\ EVM_PRIVATE_KEY = "" /\ SVM_PRIVATE_KEY # ""
        /\ pc[r] = "done"
        /\ resp[r][1].status = 200
        /\ KindNetworks(resp[r][1].body.kinds) = {"solana-devnet", "solana"}

\* The calls of the probe of network n in GET /health/rpc request r.
ProbeCalls(r, n) == {i \in 1..Len(calls[r]) : calls[r][i].network = n}

Probed(r) == {calls[r][i].network : i \in 1..Len(calls[r])}

ProbeThrew(r, n) == \E i \in ProbeCalls(r, n) : calls[r][i].state = "threw"

\* The probe went through: a block number above 0, or a signer.
ProbeSucceeded(r, n) ==
    \E i \in ProbeCalls(r, n) :
        /\ calls[r][i].state = "returned"
        /\ \/ calls[r][i].fn = "createSigner"
           \/ calls[r][i].fn = "getBlockNumber" /\ calls[r][i].value[1] > 0

\* When the probe of n began, and when it was over.
ProbeBegan(r, n) ==
    calls[r][CHOOSE i \in ProbeCalls(r, n) : \A j \in ProbeCalls(r, n) : i <= j].at
ProbeEnded(r, n) ==
    calls[r][CHOOSE i \in ProbeCalls(r, n) : \A j \in ProbeCalls(r, n) : i >= j].doneAt

\* The report GET /health/rpc request r was answered with.
Reported(r) == route[r] = "healthRpc" /\ pc[r] = "done" /\ Len(resp[r]) = 1

Report(r) == resp[r][1].body

\* C8: in the report of GET /health/rpc, for any two probed networks A and B
\* of which A's probe threw and B's went through, A is reported unhealthy
\* with an error message and B healthy with the time from B's own start to
\* the end of B's probe as latency, whichever of the two was probed first.
C8_ProbesIndependent ==
    \A r \in Req :
        Reported(r)
        => \A A \in Probed(r), B \in Probed(r) :
              A # B /\ ProbeThrew(r, A) /\ ProbeSucceeded(r, B)
              => /\ {A, B} \subseteq DOMAIN Report(r).checks
                 /\ ~Report(r).checks[A].healthy
                 /\ Report(r).checks[A].error # <<>>
                 /\ Report(r).checks[B].healthy
                 /\ Report(r).checks[B].latency = ProbeEnded(r, B) - ProbeBegan(r, B)

\* A failing probe that took time comes before and after a passing probe
\* that took time.
C8_Witness ==
    \E r \in Req :
        /\ Reported(r)
        /\ ProbeThrew(r, "sepolia") /\ ProbeEnded(r, "sepolia") > ProbeBegan(r, "sepolia")
        /\ ProbeSucceeded(r, "filecoin-calibration")
        /\ Report(r).checks["filecoin-calibration"].latency > 0
        /\ ProbeThrew(r, "solana-devnet")

\* C9: the verdict of GET /health/rpc is "healthy" with status 200 exactly
\* when every entry of the report is healthy (so too when there is none),
\* and "degraded" with status 503 otherwise.
C9_VerdictIffAllHealthy ==
    \A r \in Req :
        Reported(r)
        => IF \A n \in DOMAIN Report(r).checks : Report(r).checks[n].healthy
           THEN Report(r).status = "healthy" /\ resp[r][1].status = 200
           ELSE Report(r).status = "degraded" /\ resp[r][1].status = 503

C9_Witness ==
    \E r \in Req :
        /\ Reported(r)
        /\ DOMAIN Report(r).checks = {"sepolia", "filecoin-calibration"}
        /\ Report(r).checks["sepolia"].healthy
        /\ ~Report(r).checks["filecoin-calibration"].healthy
        /\ resp[r][1].status = 503

\* The networks GET /health/rpc is to probe under the configuration.
ToProbe ==
    (IF EVM_PRIVATE_KEY # "" /\ SEPOLIA_RPC_URL # "" THEN {"sepolia"} ELSE {})
    \cup (IF EVM_PRIVATE_KEY # "" /\ FILECOIN_CALIBRATION_RPC_URL # ""
          THEN {"filecoin-calibration"} ELSE {})
    \cup (IF SVM_PRIVATE_KEY # "" /\ SVM_RPC_URL # "" THEN {"solana-devnet"} ELSE {})

\* C10: the probes of GET /health/rpc run independently: while the probe of
\* one network is awaited, the probe of every other network to be probed has
\* been started, so a probe that never completes keeps no other from
\* starting or completing.
C10_ProbesNotBlocked ==
    \A r \in Req :
        route[r] = "healthRpc"
           /\ (\E i \in 1..Len(calls[r]) : calls[r][i].state = "pending")
        => ToProbe \subseteq Probed(r)

\* The networks of the families that have a key configured.
CredentialedNetworks ==
    (IF EVM_PRIVATE_KEY # "" THEN SupportedEVMNetworks ELSE {})
    \cup (IF SVM_PRIVATE_KEY # "" THEN SupportedSVMNetworks ELSE {})

\* C11 as stated: the report of GET /health/rpc has an entry for each network
\* whose family has a key configured.
C11_AsStated ==
    \A r \in Req :
        Reported(r) => CredentialedNetworks \subseteq DOMAIN Report(r).checks

\* C11 amended: the report of GET /health/rpc has exactly one entry for each
\* network that has a custom RPC URL configured and whose family has a key
\* configured (sepolia with SEPOLIA_RPC_URL and filecoin-calibration with
\* FILECOIN_CALIBRATION_RPC_URL when the EVM key is set, solana-devnet with
\* SVM_RPC_URL when the SVM key is set), each probed in every run; a network
\* without custom RPC URL is neither probed nor reported.
C11_ReportsConfiguredEndpoints ==
    \A r \in Req :
        Reported(r) => /\ DOMAIN Report(r).checks = ToProbe
                       /\ Probed(r) = ToProbe

C11_Witness ==
    \E r \in Req :
        /\ Reported(r)
        /\ EVM_PRIVATE_KEY # "" /\ SVM_PRIVATE_KEY # ""
        /\ SEPOLIA_RPC_URL # "" /\ FILECOIN_CALIBRATION_RPC_URL = "" /\ SVM_RPC_URL = ""
        /\ DOMAIN Report(r).checks = {"sepolia"}

\* The calls of request r to the external operation fn.
CallsTo(r, fn) == {i \in 1..Len(calls[r]) : calls[r][i].fn = fn}

\* C12: one POST /settle request calls the external settle at most once,
\* however it ends; a returned outcome, failed or not, is the answer as it
\* is, and a throw ends the request with the caught error.
C12_SettleNotRetried ==
    \A r \in Req :
        route[r] = "settle"
        => /\ Cardinality(CallsTo(r, "settle")) <= 1
           /\ \A i \in CallsTo(r, "settle") :
                 /\ calls[r][i].state = "returned"
                    => /\ pc[r] = "done"
                       /\ resp[r] = <<[status |-> 200,
                                       body |-> [kind |-> "outcome",
                                                 value |-> calls[r][i].value[1]]]>>
                 /\ calls[r][i].state = "threw"
                    => pc[r] = "done" /\ Len(resp[r]) = 1 /\ resp[r][1].status = 400

\* A settlement that failed was reported and not tried again.
C12_Witness ==
    \E r \in Req :
        /\ route[r] = "settle"
        /\ pc[r] = "done"
        /\ Cardinality(CallsTo(r, "settle")) = 1
        /\ calls[r][2].state = "returned"
        /\ calls[r][2].value = <<[success |-> FALSE]>>
        /\ resp[r][1].body.value = [success |-> FALSE]

\* C13: when the external verify (settle) of a POST /verify (/settle)
\* returns, the request is answered 200 with exactly the returned outcome as
\* body.
C13_OutcomeUnmodified ==
    \A r \in Req :
        IsPost(r)
        => \A i \in CallsTo(r, route[r]) :
              calls[r][i].state = "returned"
              => /\ pc[r] = "done"
                 /\ Len(resp[r]) = 1
                 /\ resp[r][1].status = 200
                 /\ resp[r][1].body.kind = "outcome"
                 /\ resp[r][1].body.value = calls[r][i].value[1]

C13_Witness ==
    \E r \in Req :
        /\ route[r] = "verify"
        /\ pc[r] = "done"
        /\ \E i \in CallsTo(r, "verify") :
              /\ calls[r][i].state = "returned"
              /\ calls[r][i].value = <<[isValid |-> FALSE]>>
        /\ resp[r] = <<[status |-> 200,
                        body |-> [kind |-> "outcome", value |-> [isValid |-> FALSE]]]>>

\* Request r has reached a handler.
Handled(r) == pc[r] # "idle" \/ route[r] # "none"

\* C14: with neither key set the process exits at start-up and never
\* listens, so whenever a request is handled at least one key is set.
C14_NoStartWithoutKeys ==
    /\ EVM_PRIVATE_KEY = "" /\ SVM_PRIVATE_KEY = "" => proc \in {"boot", "exited"}
    /\ \A r \in Req :
          Handled(r) => EVM_PRIVATE_KEY # "" \/ SVM_PRIVATE_KEY # ""

\* The process has exited at start-up for want of a key.
C14_Witness ==
    /\ proc = "exited"
    /\ EVM_PRIVATE_KEY = "" /\ SVM_PRIVATE_KEY = ""
    /\ SEPOLIA_RPC_URL # ""

\* Request r awaits an external call.
Awaiting(r) == \E i \in 1..Len(calls[r]) : calls[r][i].state = "pending"

\* C15: every network-touching call of a request is bounded by a timeout: a
\* request that awaits an external call does not await it forever, whether
\* or not the network answers.
C15_CallsBounded == \A r \in Req : Awaiting(r) ~> ~Awaiting(r)

\* What external call c carries of the EVM family, and of the SVM family: its
\* secret key, and its RPC endpoint configuration.
CarriesEvm(c) ==
    \/ EVM_PRIVATE_KEY # "" /\ EVM_PRIVATE_KEY \in {c.key, c.client.key}
    \/ c.rpcUrl \in {SEPOLIA_RPC_URL, FILECOIN_CALIBRATION_RPC_URL}
    \/ c.config.rpcUrls # <<>>
CarriesSvm(c) ==
    \/ SVM_PRIVATE_KEY # "" /\ SVM_PRIVATE_KEY \in {c.key, c.client.key}
    \/ c.rpcUrl = SVM_RPC_URL
    \/ c.config.svmConfig # "undefined"

\* C16: no external call of a POST for an EVM network carries the SVM key or
\* SVM RPC configuration, and none of a POST for an SVM network carries the
\* EVM key or EVM RPC configuration.
C16_NoCrossFamilyMaterial ==
    \A r \in Req :
        IsPost(r)
        => \A i \in 1..Len(calls[r]) :
              /\ body[r].network \in SupportedEVMNetworks => ~CarriesSvm(calls[r][i])
              /\ body[r].network \in SupportedSVMNetworks => ~CarriesEvm(calls[r][i])

Provisioning == {"createConnectedClient", "createSigner"}

\* C17 as stated: POST /verify provisions a read-only client and passes no
\* secret key to any provisioning call, on every supported network.
C17_AsStated ==
    \A r \in Req :
        route[r] = "verify"
        => \A i \in 1..Len(calls[r]) :
              calls[r][i].fn \in Provisioning
              => calls[r][i].fn = "createConnectedClient" /\ calls[r][i].key = ""

\* C17 amended: POST /verify on an EVM network provisions a read-only client
\* with createConnectedClient and passes no secret key to it; on an SVM
\* network it provisions a signing identity with createSigner, to which it
\* passes the SVM secret key. verify is called with what was provisioned.
C17_VerifyProvisioning ==
    \A r \in Req :
        route[r] = "verify"
        => \A i \in 1..Len(calls[r]) :
              /\ calls[r][i].fn \in Provisioning /\ body[r].network \in SupportedEVMNetworks
                 => calls[r][i].fn = "createConnectedClient" /\ calls[r][i].key = ""
              /\ calls[r][i].fn \in Provisioning /\ body[r].network \in SupportedSVMNetworks
                 => calls[r][i].fn = "createSigner"
                    /\ calls[r][i].key = SVM_PRIVATE_KEY /\ SVM_PRIVATE_KEY # ""
              /\ calls[r][i].fn = "verify"
                 => /\ calls[r][i].client.key =
                          (IF body[r].network \in SupportedSVMNetworks
                           THEN SVM_PRIVATE_KEY ELSE "")
                    /\ calls[r][i].client.kind =
                          (IF body[r].network \in SupportedSVMNetworks
                           THEN "signer" ELSE "client")

\* A verification on an SVM network that went through a signer, and so
\* through the SVM key.
C17_Witness ==
    \E r \in Req :
        /\ route[r] = "verify"
        /\ body[r].network = "solana-devnet"
        /\ Len(calls[r]) = 2
        /\ calls[r][1].fn = "createSigner" /\ calls[r][1].key = "SVMKEY"
        /\ calls[r][2].fn = "verify" /\ calls[r][2].client.kind = "signer"
        /\ pc[r] = "done"

\* The custom RPC URL configured for an EVM network, if any.
EvmOverride(network) ==
    IF network = "sepolia" /\ SEPOLIA_RPC_URL # "" THEN SEPOLIA_RPC_URL
    ELSE IF network = "filecoin-calibration" /\ FILECOIN_CALIBRATION_RPC_URL # ""
    THEN FILECOIN_CALIBRATION_RPC_URL
    ELSE "undefined"

\* The custom RPC URL configured for a network of either family, if any.
Override(network) ==
    IF network \in SupportedSVMNetworks
    THEN (IF SVM_RPC_URL # "" THEN SVM_RPC_URL ELSE "undefined")
    ELSE EvmOverride(network)

\* C18 as stated: the provisioning call of a POST on network n, of either
\* family, receives the override configured for n, and none when none is
\* configured for n.
C18_AsStated ==
    \A r \in Req :
        IsPost(r)
        => \A i \in 1..Len(calls[r]) :
              calls[r][i].fn \in Provisioning
              => calls[r][i].rpcUrl = Override(body[r].network)

\* C18 amended: the provisioning call of a POST on an EVM network n receives
\* the override configured for n, and none when none is configured for n,
\* never that of another network; the provisioning call of a POST on an SVM
\* network receives no override, SVM_RPC_URL being handed to verify / settle
\* in x402Config.
C18_OverrideHonored ==
    \A r \in Req :
        IsPost(r)
        => \A i \in 1..Len(calls[r]) :
              /\ calls[r][i].fn \in Provisioning
                 => calls[r][i].rpcUrl =
                       (IF body[r].network \in SupportedSVMNetworks THEN "undefined"
                        ELSE EvmOverride(body[r].network))
              /\ calls[r][i].fn \in Posts
                 => calls[r][i].config.svmConfig =
                       (IF SVM_RPC_URL # "" THEN SVM_RPC_URL ELSE "undefined")

\* With both EVM overrides configured, a settlement on sepolia has
\* provisioned with sepolia's.
C18_Witness ==
    \E r \in Req :
        /\ SEPOLIA_RPC_URL # "" /\ FILECOIN_CALIBRATION_RPC_URL # ""
        /\ route[r] = "settle" /\ body[r].network = "sepolia"
        /\ Len(calls[r]) = 2
        /\ calls[r][1].fn = "createSigner"
        /\ calls[r][1].rpcUrl = "https://sepolia.rpc"
        /\ pc[r] = "done"

\* Request r is a POST /settle that passed validation, classification and
\* the key check.
SettleAdmitted(r) ==
    /\ route[r] = "settle"
    /\ body[r].reqOk /\ body[r].payOk
    /\ ~Unsupported(body[r].network)
    /\ ~FamilyWithoutKey(body[r].network)

\* C19: concurrent POST /settle requests are neither serialized nor
\* deduplicated. Whatever other requests are in flight, and whatever they
\* carry, an admitted settle request provisions a signer of its own, then
\* makes one settle call of its own, and at each await waits only for its
\* own external call: that call settling lets it go on at once.
C19_SettleIndependent ==
    \A r \in Req :
        SettleAdmitted(r)
        => /\ Len(calls[r]) >= 1
           /\ calls[r][1].fn = "createSigner"
           /\ calls[r][1].network = body[r].network
           /\ pc[r] = "awaitCreateSigner"
              => /\ Len(calls[r]) = 1 /\ calls[r][1].state = "pending"
                 /\ ENABLED SignerReturns(r)
           /\ pc[r] = "awaitInvoke"
              => /\ Len(calls[r]) = 2
                 /\ calls[r][2].fn = "settle" /\ calls[r][2].state = "pending"
                 /\ ENABLED InvokeReturns(r, [success |-> TRUE])
           /\ pc[r] = "done" /\ ThrownIn(r) = {}
              => Len(calls[r]) = 2 /\ calls[r][2].fn = "settle"
                 /\ calls[r][2].state = "returned"

\* Two requests with the same body both await their external settle call.
C19_Witness ==
    /\ body["r1"] = body["r2"]
    /\ \A r \in Req :
          /\ SettleAdmitted(r)
          /\ pc[r] = "awaitInvoke"
          /\ Len(calls[r]) = 2
          /\ calls[r][2].fn = "settle" /\ calls[r][2].state = "pending"

\* The steps of a POST in the order the claim gives them.
StepOrder ==
    <<"parseRequirements", "parsePayload", "classify", "checkKey", "provision",
      "invoke">>

IsPrefix(s, t) == Len(s) <= Len(t) /\ \A i \in 1..Len(s) : s[i] = t[i]

\* C20: the steps of one POST /verify or /settle are taken in the order
\* validate requirements, validate payload, classify, check key, provision,
\* invoke, each at most once and none after a step that failed: there is one
\* provisioning call at most, the external verify / settle is called only
\* once that call has returned, and a request that failed made no call after
\* the failing step.
C20_FixedOrder ==
    \A r \in Req :
        IsPost(r)
        => /\ IsPrefix(steps[r], StepOrder)
           /\ Len(calls[r]) <= 2
           /\ ("provision" \in StepsTaken(r)) = (Len(calls[r]) >= 1)
           /\ ("invoke" \in StepsTaken(r)) = (Len(calls[r]) = 2)
           /\ Len(calls[r]) >= 1 => calls[r][1].fn \in Provisioning
           /\ Len(calls[r]) = 2
              => calls[r][1].state = "returned" /\ calls[r][2].fn = route[r]
           /\ ~body[r].reqOk => steps[r] = <<"parseRequirements">>
           /\ body[r].reqOk /\ ~body[r].payOk
              => steps[r] = <<"parseRequirements", "parsePayload">>
           /\ \A i \in 1..Len(calls[r]) :
                 calls[r][i].state = "threw" => i = Len(calls[r]) /\ pc[r] = "done"

\* A request that went through all six steps.
C20_Witness ==
    \E r \in Req :
        /\ route[r] = "settle"
        /\ steps[r] = StepOrder
        /\ pc[r] = "done"
        /\ resp[r][1].status = 200

====
